---- MODULE Spec2Model ----
(***************************************************************************)
(* Model of backend/app.py: a FastAPI facade over three AWS clients, with  *)
(* a Prometheus request counter and latency histogram kept by an HTTP      *)
(* middleware.  Each in-flight request is a small process whose steps are  *)
(* the points at which the runtime can switch to another request: the      *)
(* counter update of the middleware, the dispatch (body validation), the   *)
(* construction of the session and every provider call.                    *)
(*                                                                         *)
(* The registration of the CORS middleware (lines 9-15 of the source) is   *)
(* left unclosed there; the model takes the application as it runs with    *)
(* that call closed.  CORS only adds response headers and touches none of  *)
(* the state below.                                                        *)
(***************************************************************************)
EXTENDS Integers, Sequences, FiniteSets, TLC

\* ---------------------------------------------------------------- bounds
NumReq == 2
MaxInstances == 3
MaxReservations == 2
MaxBuckets == 2
MaxGroups == 3
MaxMilli == 1300
NumDays == 800
FirstYear == 2023

\* ------------------------------------------------------ program constants
WindowDays == 30
MantissaBits == 53

None == "None"
DefaultRegion == "us-east-1"
Requests == 1..NumReq
Paths == {"/health", "/metrics", "/resources", "/cost"}
PostPaths == {"/resources", "/cost"}

\* ============================================================ credentials
\* A request body is a JSON object: a function from the field names it
\* carries to strings.  A field that is not in the DOMAIN is missing.
KeyFields == {"access_key", "secret_key"}
Payloads ==
    UNION {[S -> {"AKIAEXAMPLE"}] : S \in SUBSET KeyFields}
    \cup {[access_key |-> "", secret_key |-> ""],
          [access_key |-> "AKIAEXAMPLE", secret_key |-> "wJalrEXAMPLE", region |-> "eu-west-1"]}

ValidAccessOnly(p) == "access_key" \in DOMAIN p

\* pydantic: both str fields are required, region has a default.
Valid(p) == KeyFields \subseteq DOMAIN p

AWSCreds(p) ==
    [access_key |-> p.access_key,
     secret_key |-> p.secret_key,
     region     |-> IF "region" \in DOMAIN p THEN p.region ELSE DefaultRegion]

\* ============================================================== /resources
RECURSIVE SumLen(_, _)
SumLen(reservations, i) ==
    IF i > Len(reservations) THEN 0
    ELSE Len(reservations[i].Instances) + SumLen(reservations, i + 1)

CountReservations(resp) == Len(resp.Reservations)

\* sum(len(res["Instances"]) for res in instances["Reservations"])
InstanceCount(resp) == SumLen(resp.Reservations, 1)

BucketCount(resp) == Len(resp.Buckets)

\* The describe_instances answers: every way to spread the instances 1..n
\* over k reservations (a reservation may stay empty), n and k bounded.
RECURSIVE Members(_, _, _)
Members(assign, k, i) ==
    IF i > Len(assign) THEN <<>>
    ELSE (IF assign[i] = k THEN <<i>> ELSE <<>>) \o Members(assign, k, i + 1)

Grouped(assign, k) ==
    [Reservations |-> [j \in 1..k |-> [Instances |-> Members(assign, j, 1)]]]

AllReservations ==
    UNION {{Grouped(assign, k) : assign \in [1..n -> 1..k]} :
              n \in 0..MaxInstances, k \in 0..MaxReservations}

AllBuckets == {[Buckets |-> [i \in 1..m |-> i]] : m \in 0..MaxBuckets}

SampleReservations == {Grouped(<<>>, 0), Grouped(<<1, 3, 3>>, 3)}
SampleBuckets == {[Buckets |-> <<>>], [Buckets |-> <<1, 2>>]}

\* ================================================================== /cost
\* ---- the calendar: a day is counted from 1 January of FirstYear.
IsLeap(y) == y % 4 = 0 /\ (y % 100 # 0 \/ y % 400 = 0)
DaysInYear(y) == IF IsLeap(y) THEN 366 ELSE 365
DaysInMonth(y, m) ==
    IF m = 2 THEN (IF IsLeap(y) THEN 29 ELSE 28)
    ELSE IF m \in {4, 6, 9, 11} THEN 30 ELSE 31

RECURSIVE YMD(_, _, _)
YMD(y, m, n) ==
    IF n >= DaysInYear(y) /\ m = 1 THEN YMD(y + 1, 1, n - DaysInYear(y))
    ELSE IF n >= DaysInMonth(y, m) THEN YMD(y, m + 1, n - DaysInMonth(y, m))
    ELSE [y |-> y, m |-> m, d |-> n + 1]

\* strftime("%Y-%m-%d") of the date that lies n days after the epoch.
Strftime(n) == YMD(FirstYear, 1, n)

\* end = today; start = end - timedelta(days=30)
TimePeriod(today) == [Start |-> Strftime(today - WindowDays), End |-> Strftime(today)]

Days == WindowDays..(WindowDays + NumDays)
SampleDays == {WindowDays + 318}

Before(a, b) ==
    \/ a.y < b.y
    \/ a.y = b.y /\ a.m < b.m
    \/ a.y = b.y /\ a.m = b.m /\ a.d < b.d

FirstOfNextMonth(a) ==
    IF a.m = 12 THEN [y |-> a.y + 1, m |-> 1, d |-> 1]
    ELSE [y |-> a.y, m |-> a.m + 1, d |-> 1]

\* ---- amounts.  The billing API gives an amount as a string.  A decimal
\* string with three fractional digits is kept as its sign and its number
\* of thousandths; "NaN" and a string that is no number are kept by kind.
Decimal(neg, milli) == [kind |-> "decimal", neg |-> neg, milli |-> milli]
NaNText == [kind |-> "nan", neg |-> FALSE, milli |-> 0]
Garbage == [kind |-> "text", neg |-> FALSE, milli |-> 0]

Group(service, amount) == [Keys |-> <<service>>, Amount |-> amount]

\* ---- float(amount): the double nearest to milli/1000.  Only the side on
\* which the double lies of the decimal it was parsed from matters to
\* round(): ErrSign is -1, 0 or 1 as the double is below, equal to or above
\* milli/1000.  The binary expansion is produced by long division; after
\* the 53 bits of the mantissa the remainder is compared with half a unit
\* in the last place (a tie goes to the even mantissa).
RECURSIVE BitLength(_)
BitLength(i) == IF i = 0 THEN 0 ELSE 1 + BitLength(i \div 2)

RECURSIVE Nearest(_, _, _)
Nearest(r, n, last) ==
    IF n > 0 THEN Nearest((2 * r) % 1000, n - 1, IF 2 * r >= 1000 THEN 1 ELSE 0)
    ELSE IF r = 0 THEN 0
    ELSE IF r < 500 THEN -1
    ELSE IF r > 500 THEN 1
    ELSE IF last = 1 THEN 1 ELSE -1

RECURSIVE Lead(_)
Lead(r) ==
    IF 2 * r >= 1000 THEN Nearest((2 * r) % 1000, MantissaBits - 1, 1)
    ELSE Lead(2 * r)

ErrSign(milli) ==
    IF milli = 0 THEN 0
    ELSE IF milli \div 1000 > 0
         THEN Nearest(milli % 1000, MantissaBits - BitLength(milli \div 1000),
                   (milli \div 1000) % 2)
         ELSE Lead(milli)

NaN == [nan |-> TRUE, neg |-> FALSE, milli |-> 0, err |-> 0]

\* float() accepts a decimal literal and "NaN"; anything else is a ValueError.
IsFloatLiteral(a) == a.kind \in {"decimal", "nan"}

Float(a) ==
    IF a.kind = "nan" THEN NaN
    ELSE [nan |-> FALSE, neg |-> a.neg, milli |-> a.milli, err |-> ErrSign(a.milli)]

\* round(x, 2) of a double: the hundredth nearest to the exact value of the
\* double, an exact tie going to the even hundredth.  The result is kept
\* as its number of hundredths.
TruncCents(milli, err) == milli \div 10

RoundCents(milli, err) ==
    LET q == milli \div 10
        t == milli % 10
    IN  IF t < 5 THEN q
        ELSE IF t > 5 THEN q + 1
        ELSE IF err > 0 THEN q + 1
        ELSE IF err < 0 THEN q
        ELSE IF q % 2 = 0 THEN q ELSE q + 1

Round2(x) ==
    IF x.nan THEN [nan |-> TRUE, cents |-> 0]
    ELSE [nan |-> FALSE,
          cents |-> (IF x.neg THEN -1 ELSE 1) * RoundCents(x.milli, x.err)]

\* ---- the loop of get_cost over the groups of the first time bucket.
EmptyDict == [s \in {} |-> Round2(NaN)]

Put(costs, k, v) == [s \in DOMAIN costs \cup {k} |-> IF s = k THEN v ELSE costs[s]]

PutIfAbsent(costs, k, v) == IF k \in DOMAIN costs THEN costs ELSE Put(costs, k, v)

\* costs[service] = round(float(amount), 2)
Store(costs, k, v) == Put(costs, k, v)

RECURSIVE Loop(_, _, _)
Loop(groups, i, costs) ==
    IF i > Len(groups) THEN costs
    ELSE Loop(groups, i + 1,
              Store(costs, groups[i].Keys[1], Round2(Float(groups[i].Amount))))

\* What the body of the try block of get_cost does with a response: it
\* raises, or it returns the mapping.
Reshape(ResultsByTime) ==
    IF Len(ResultsByTime) = 0
    THEN [raised |-> "IndexError", costs |-> EmptyDict]
    ELSE LET groups == ResultsByTime[1].Groups
         IN  IF \E i \in 1..Len(groups) : ~IsFloatLiteral(groups[i].Amount)
             THEN [raised |-> "ValueError", costs |-> EmptyDict]
             ELSE [raised |-> None, costs |-> Loop(groups, 1, EmptyDict)]

\* The framework renders the returned mapping with json.dumps(allow_nan=False).
Serializable(costs) == \A s \in DOMAIN costs : ~costs[s].nan

\* ---- billing answers.
\* The cost explorer at MONTHLY granularity: one result per calendar month
\* that the period [Start, End) touches, each cut to the period.
RECURSIVE MonthlyResults(_, _)
MonthlyResults(from, to) ==
    IF ~Before(from, to) THEN <<>>
    ELSE LET next == FirstOfNextMonth(from)
             cut  == IF Before(next, to) THEN next ELSE to
         IN  <<[TimePeriod |-> [Start |-> from, End |-> cut],
                Groups |-> <<Group("Amazon Elastic Compute Cloud", Decimal(FALSE, 1000))>>]>>
             \o MonthlyResults(cut, to)

CostExplorer == {[today |-> d,
                  response |-> MonthlyResults(TimePeriod(d).Start, TimePeriod(d).End)] :
                     d \in Days}

Bucket(p, groups) == [TimePeriod |-> p, Groups |-> groups]

Services == {"EC2", "S3"}
SampleAmounts == {Decimal(FALSE, 12345), Decimal(FALSE, 1), Decimal(FALSE, 2675)}
AllAmounts ==
    {Decimal(neg, m) : neg \in BOOLEAN, m \in 0..MaxMilli} \cup SampleAmounts

GroupLists(amounts) ==
    UNION {[1..n -> {Group(s, a) : s \in Services, a \in amounts}] : n \in 0..MaxGroups}

\* One bucket, every list of at most MaxGroups groups (service names repeat).
AllBilling ==
    {[today |-> d, response |-> <<Bucket(TimePeriod(d), g)>>] :
        d \in SampleDays, g \in GroupLists(SampleAmounts)}

\* One bucket with one group, every amount.
RoundBilling ==
    {[today |-> d, response |-> <<Bucket(TimePeriod(d), <<Group("EC2", a)>>)>>] :
        d \in SampleDays, a \in AllAmounts}

\* A few answers of a mock provider: no bucket at all, the two services of
\* the documented example, an amount that is no number, "NaN", two buckets.
MockAnswers(p) ==
    {<<>>,
     <<Bucket(p, <<Group("EC2", Decimal(FALSE, 12345)), Group("S3", Decimal(FALSE, 1))>>)>>,
     <<Bucket(p, <<Group("EC2", Garbage)>>)>>,
     <<Bucket(p, <<Group("EC2", NaNText)>>)>>,
     <<Bucket(p, <<Group("EC2", Decimal(FALSE, 1000))>>),
       Bucket(p, <<Group("S3", Decimal(FALSE, 2000))>>)>>}

SampleBilling ==
    UNION {{[today |-> d, response |-> b] : b \in MockAnswers(TimePeriod(d))} :
              d \in SampleDays}

\* ================================================================== state
VARIABLES
    pc,               \* where each request is
    path,             \* request.url.path
    payload,          \* the JSON body of a POST
    session,          \* the boto3 sessions built for the request
    calls,            \* the provider operations issued for the request
    instances,        \* get_resources: the describe_instances answer
    instance_count,   \* get_resources
    buckets,          \* get_resources: the list_buckets answer
    period,           \* get_cost: TimePeriod sent to the cost explorer
    response,         \* get_cost: ResultsByTime of the answer
    raised,           \* the exception caught by the handler
    status,           \* HTTP status of the response
    body,             \* body of the response
    REQUEST_COUNT,    \* counter, one child per endpoint label
    REQUEST_LATENCY,  \* histogram, observations per endpoint label
    lock,             \* the mutex of the counter value: its holder, or 0
    snap              \* the value read under the mutex

vars == <<pc, path, payload, session, calls, instances, instance_count, buckets,
          period, response, raised, status, body, REQUEST_COUNT,
          REQUEST_LATENCY, lock, snap>>

locals == <<instances, instance_count, buckets, period, response>>
metrics == <<REQUEST_COUNT, REQUEST_LATENCY, lock, snap>>
reply == <<raised, status, body>>

Unset == <<>>

Init ==
    /\ pc = [r \in Requests |-> "idle"]
    /\ path = [r \in Requests |-> None]
    /\ payload = [r \in Requests |-> Unset]
    /\ session = [r \in Requests |-> <<>>]
    /\ calls = [r \in Requests |-> <<>>]
    /\ instances = [r \in Requests |-> Unset]
    /\ instance_count = [r \in Requests |-> Unset]
    /\ buckets = [r \in Requests |-> Unset]
    /\ period = [r \in Requests |-> Unset]
    /\ response = [r \in Requests |-> Unset]
    /\ raised = [r \in Requests |-> None]
    /\ status = [r \in Requests |-> 0]
    /\ body = [r \in Requests |-> Unset]
    /\ REQUEST_COUNT = [p \in Paths |-> 0]
    /\ REQUEST_LATENCY = [p \in Paths |-> 0]
    /\ lock = 0
    /\ snap = [r \in Requests |-> 0]

\* ============================================================= middleware
\* A request arrives: endpoint = request.url.path
ReceiveOn(r, paths) ==
    /\ pc[r] = "idle"
    /\ \E p \in paths : path' = [path EXCEPT ![r] = p]
    /\ pc' = [pc EXCEPT ![r] = "count"]
    /\ UNCHANGED <<payload, session, calls, locals, reply, metrics>>

AlwaysAcquire(l) == TRUE

\* Counter.inc() runs under the lock of the value it updates.
CanAcquire(l) == l = 0

\* REQUEST_COUNT.labels(endpoint=endpoint).inc(): take the lock, read
CounterLock(r) ==
    /\ pc[r] = "count"
    /\ CanAcquire(lock)
    /\ lock' = r
    /\ snap' = [snap EXCEPT ![r] = REQUEST_COUNT[path[r]]]
    /\ pc' = [pc EXCEPT ![r] = "inc"]
    /\ UNCHANGED <<path, payload, session, calls, locals, reply,
                   REQUEST_COUNT, REQUEST_LATENCY>>

\* ... write the value read plus one, release the lock
CounterInc(r) ==
    /\ pc[r] = "inc"
    /\ REQUEST_COUNT' = [REQUEST_COUNT EXCEPT ![path[r]] = snap[r] + 1]
    /\ lock' = 0
    /\ snap' = [snap EXCEPT ![r] = 0]
    /\ pc' = [pc EXCEPT ![r] = "dispatch"]
    /\ UNCHANGED <<path, payload, session, calls, locals, reply, REQUEST_LATENCY>>

\* The with block of the middleware ends: the latency is observed and the
\* response leaves; everything scoped to the request is dropped.
Respond(r) ==
    /\ pc[r] = "respond"
    /\ REQUEST_LATENCY' = [REQUEST_LATENCY EXCEPT ![path[r]] = @ + 1]
    /\ pc' = [pc EXCEPT ![r] = "done"]
    /\ payload' = [payload EXCEPT ![r] = Unset]
    /\ session' = [session EXCEPT ![r] = <<>>]
    /\ calls' = [calls EXCEPT ![r] = <<>>]
    /\ instances' = [instances EXCEPT ![r] = Unset]
    /\ instance_count' = [instance_count EXCEPT ![r] = Unset]
    /\ buckets' = [buckets EXCEPT ![r] = Unset]
    /\ period' = [period EXCEPT ![r] = Unset]
    /\ response' = [response EXCEPT ![r] = Unset]
    /\ raised' = [raised EXCEPT ![r] = None]
    /\ body' = [body EXCEPT ![r] = Unset]
    /\ UNCHANGED <<path, status, REQUEST_COUNT, lock, snap>>

\* =============================================================== handlers
Reply(r, code, content) ==
    /\ status' = [status EXCEPT ![r] = code]
    /\ body' = [body EXCEPT ![r] = content]
    /\ pc' = [pc EXCEPT ![r] = "respond"]

Unhandled(e) == [status_code |-> 500, detail |-> "Internal Server Error"]

\* except Exception as e: raise HTTPException(status_code=400, detail=str(e))
OnException(e) == [status_code |-> 400, detail |-> e]

Raise(r, e) ==
    /\ raised' = [raised EXCEPT ![r] = e]
    /\ Reply(r, OnException(e).status_code, [detail |-> OnException(e).detail])

\* A health check that asks the provider (what health() does not do).
HealthProbe(r) ==
    /\ pc[r] = "dispatch"
    /\ path[r] = "/health"
    /\ calls' = [calls EXCEPT ![r] = Append(@, "list_buckets")]
    /\ \/ Reply(r, 200, [status |-> "ok"])
       \/ Reply(r, 503, [status |-> "unreachable"])
    /\ UNCHANGED <<path, payload, session, locals, raised, metrics>>

\* GET /health
Health(r) ==
    /\ pc[r] = "dispatch"
    /\ path[r] = "/health"
    /\ Reply(r, 200, [status |-> "ok"])
    /\ UNCHANGED <<path, payload, session, calls, locals, raised, metrics>>

\* GET /metrics: generate_latest() renders the registry as it is now.
Metrics(r) ==
    /\ pc[r] = "dispatch"
    /\ path[r] = "/metrics"
    /\ Reply(r, 200, [requests_total |-> REQUEST_COUNT,
                      latency_count |-> REQUEST_LATENCY])
    /\ UNCHANGED <<path, payload, session, calls, locals, raised, metrics>>

\* POST: the framework parses the body into AWSCreds before it calls the
\* handler; a body that does not validate is answered with a 422.
ValidateFrom(r, bodies) ==
    /\ pc[r] = "dispatch"
    /\ path[r] \in PostPaths
    /\ \E p \in bodies :
        /\ payload' = [payload EXCEPT ![r] = p]
        /\ IF Valid(p)
           THEN /\ pc' = [pc EXCEPT ![r] = "clients"]
                /\ UNCHANGED <<status, body>>
           ELSE Reply(r, 422, [detail |-> "field required"])
    /\ UNCHANGED <<path, session, calls, locals, raised, metrics>>

\* clients = get_clients(creds), the first statement of both try blocks
GetClients(r) ==
    /\ pc[r] = "clients"
    /\ session' = [session EXCEPT ![r] = Append(@, AWSCreds(payload[r]))]
    /\ \/ /\ pc' = [pc EXCEPT ![r] =
                       IF path[r] = "/resources" THEN "describe" ELSE "cost"]
          /\ UNCHANGED reply
       \/ Raise(r, "SessionError")
    /\ UNCHANGED <<path, payload, calls, locals, metrics>>

\* A handler that goes on to the next call after a failed one.
DescribeAndCarryOn(r, answers) ==
    /\ pc[r] = "describe"
    /\ calls' = [calls EXCEPT ![r] = Append(@, "describe_instances")]
    /\ \/ /\ raised' = [raised EXCEPT ![r] = "DescribeInstancesError"]
          /\ instance_count' = [instance_count EXCEPT ![r] = 0]
          /\ UNCHANGED instances
       \/ \E a \in answers :
            /\ instances' = [instances EXCEPT ![r] = a]
            /\ instance_count' = [instance_count EXCEPT ![r] = InstanceCount(a)]
            /\ UNCHANGED raised
    /\ pc' = [pc EXCEPT ![r] = "list"]
    /\ UNCHANGED <<path, payload, session, buckets, period, response,
                   status, body, metrics>>

\* instances = ec2.describe_instances(); instance_count = sum(...)
DescribeInstancesFrom(r, answers) ==
    /\ pc[r] = "describe"
    /\ calls' = [calls EXCEPT ![r] = Append(@, "describe_instances")]
    /\ \/ /\ Raise(r, "DescribeInstancesError")
          /\ UNCHANGED <<instances, instance_count>>
       \/ \E a \in answers :
            /\ instances' = [instances EXCEPT ![r] = a]
            /\ instance_count' = [instance_count EXCEPT ![r] = InstanceCount(a)]
            /\ pc' = [pc EXCEPT ![r] = "list"]
            /\ UNCHANGED reply
    /\ UNCHANGED <<path, payload, session, buckets, period, response, metrics>>

\* buckets = s3.list_buckets(); bucket_count = len(...); return {...}
ListBucketsFrom(r, answers) ==
    /\ pc[r] = "list"
    /\ calls' = [calls EXCEPT ![r] = Append(@, "list_buckets")]
    /\ \/ /\ Raise(r, "ListBucketsError")
          /\ UNCHANGED buckets
       \/ \E a \in answers :
            /\ buckets' = [buckets EXCEPT ![r] = a]
            /\ Reply(r, 200, [ec2_instances |-> instance_count[r],
                              s3_buckets |-> BucketCount(a)])
            /\ UNCHANGED raised
    /\ UNCHANGED <<path, payload, session, instances, instance_count, period,
                   response, metrics>>

\* The window, the get_cost_and_usage call, the loop over the groups of
\* ResultsByTime[0] and the return.  An exchange is the date the clock
\* shows and the answer the provider gives to the window of that date.
GetCostAndUsageFrom(r, exchanges) ==
    /\ pc[r] = "cost"
    /\ calls' = [calls EXCEPT ![r] = Append(@, "get_cost_and_usage")]
    /\ \E x \in exchanges :
        /\ period' = [period EXCEPT ![r] = TimePeriod(x.today)]
        /\ \/ /\ Raise(r, "GetCostAndUsageError")
              /\ UNCHANGED response
           \/ /\ response' = [response EXCEPT ![r] = x.response]
              /\ LET out == Reshape(x.response)
                 IN  IF out.raised # None
                     THEN Raise(r, out.raised)
                     ELSE /\ UNCHANGED raised
                          /\ IF Serializable(out.costs)
                             THEN Reply(r, 200, out.costs)
                             ELSE Reply(r, 500, [text |-> "Internal Server Error"])
    /\ UNCHANGED <<path, payload, session, instances, instance_count, buckets,
                   metrics>>

\* ========================================================= specifications
Receive(r) == ReceiveOn(r, Paths)
Validate(r) == ValidateFrom(r, Payloads)
DescribeInstances(r) == DescribeInstancesFrom(r, SampleReservations)
ListBuckets(r) == ListBucketsFrom(r, SampleBuckets)
GetCostAndUsage(r) == GetCostAndUsageFrom(r, SampleBilling)

\* NumReq requests served concurrently by a mock provider.
Next ==
    \E r \in Requests :
        \/ Receive(r)
        \/ CounterLock(r)
        \/ CounterInc(r)
        \/ Health(r)
        \/ Metrics(r)
        \/ Validate(r)
        \/ GetClients(r)
        \/ DescribeInstances(r)
        \/ ListBuckets(r)
        \/ GetCostAndUsage(r)
        \/ Respond(r)

Spec == Init /\ [][Next]_vars

\* One request to /resources, the provider answering with any grouping of
\* at most MaxInstances instances and at most MaxBuckets buckets.
ResourcesNext ==
    \/ ReceiveOn(1, {"/resources"})
    \/ CounterLock(1)
    \/ CounterInc(1)
    \/ ValidateFrom(1, Payloads)
    \/ GetClients(1)
    \/ DescribeInstancesFrom(1, AllReservations)
    \/ ListBucketsFrom(1, AllBuckets)
    \/ Respond(1)

SpecResources == Init /\ [][ResourcesNext]_vars

\* One request to /cost on any day, answered by the cost explorer.
WindowNext ==
    \/ ReceiveOn(1, {"/cost"})
    \/ CounterLock(1)
    \/ CounterInc(1)
    \/ ValidateFrom(1, Payloads)
    \/ GetClients(1)
    \/ GetCostAndUsageFrom(1, CostExplorer)
    \/ Respond(1)

SpecWindow == Init /\ [][WindowNext]_vars

\* One request to /cost, answered with one group of any amount.
RoundNext ==
    \/ ReceiveOn(1, {"/cost"})
    \/ CounterLock(1)
    \/ CounterInc(1)
    \/ ValidateFrom(1, Payloads)
    \/ GetClients(1)
    \/ GetCostAndUsageFrom(1, RoundBilling)
    \/ Respond(1)

SpecRound == Init /\ [][RoundNext]_vars

\* One request to /cost, answered with any list of groups.
CostsNext ==
    \/ ReceiveOn(1, {"/cost"})
    \/ CounterLock(1)
    \/ CounterInc(1)
    \/ ValidateFrom(1, Payloads)
    \/ GetClients(1)
    \/ GetCostAndUsageFrom(1, AllBilling)
    \/ Respond(1)

SpecCosts == Init /\ [][CostsNext]_vars

\* ================================================================= claims
Range(f) == {f[i] : i \in DOMAIN f}
Answered(r, p) == pc[r] = "respond" /\ path[r] = p

\* ---- C1
\* The instances of an answer, counted as a set over all its reservations.
TotalInstances(resp) ==
    Cardinality(UNION {Range(res.Instances) : res \in Range(resp.Reservations)})

\* C1: a /resources request with a valid body whose two provider calls
\* succeed is answered 200 with ec2_instances = the number of instances of
\* the describe_instances answer, however they are spread over reservations,
\* and s3_buckets = the number of buckets of the list_buckets answer.
C1_ResourceSummary ==
    \A r \in Requests :
        Answered(r, "/resources") /\ raised[r] = None /\ KeyFields \subseteq DOMAIN payload[r]
        => /\ status[r] = 200
           /\ body[r] = [ec2_instances |-> TotalInstances(instances[r]),
                         s3_buckets |-> Cardinality(Range(buckets[r].Buckets))]

C1_Witness ==
    \E r \in Requests :
        /\ Answered(r, "/resources") /\ status[r] = 200
        /\ Len(instances[r].Reservations) = 2
        /\ instances[r].Reservations[1].Instances = <<>>
        /\ Len(instances[r].Reservations[2].Instances) = 3
        /\ body[r] = [ec2_instances |-> 3, s3_buckets |-> 2]

\* ---- C2
\* C2: an error raised inside get_resources or get_cost (by the session
\* construction, by a provider call or by the reshaping of the answer) is
\* answered with status 400 and the text of the error as detail.
C2_ErrorsAre400 ==
    \A r \in Requests :
        raised[r] # None
        => /\ Answered(r, "/resources") \/ Answered(r, "/cost")
           /\ status[r] = 400
           /\ body[r] = [detail |-> raised[r]]

C2_Witness ==
    \E r1, r2 \in Requests :
        /\ Answered(r1, "/cost") /\ raised[r1] = "ValueError" /\ status[r1] = 400
        /\ Answered(r2, "/resources") /\ raised[r2] = "ListBucketsError"
        /\ status[r2] = 400

\* ---- C3
MissingKey(p) == "access_key" \notin DOMAIN p \/ "secret_key" \notin DOMAIN p
Parsed(r) == pc[r] \in {"clients", "describe", "list", "cost", "respond"}

\* C3: a POST whose body lacks access_key or secret_key is answered 422 as
\* soon as the body is parsed; no session is built and no provider call is
\* issued for it.
C3_MissingKeyRejected ==
    \A r \in Requests :
        path[r] \in PostPaths /\ Parsed(r) /\ MissingKey(payload[r])
        => /\ pc[r] = "respond"
           /\ status[r] = 422
           /\ session[r] = <<>>
           /\ calls[r] = <<>>

C3_Witness ==
    \E r1, r2 \in Requests :
        /\ Answered(r1, "/resources") /\ DOMAIN payload[r1] = {"access_key"}
        /\ Answered(r2, "/cost") /\ DOMAIN payload[r2] = {"secret_key"}
        /\ status[r1] = 422 /\ status[r2] = 422

\* ---- C4
Counted(p) == {r \in Requests : path[r] = p /\ pc[r] \notin {"idle", "count", "inc"}}

\* C4: under every interleaving the counter of an endpoint equals the number
\* of requests to that endpoint whose middleware has passed the increment;
\* K requests to /resources leave it at K.
C4_NoLostUpdate ==
    \A p \in Paths : REQUEST_COUNT[p] = Cardinality(Counted(p))

C4_Witness ==
    /\ \A r \in Requests : pc[r] = "done" /\ path[r] = "/resources"
    /\ \E r1, r2 \in Requests : status[r1] = 200 /\ status[r2] = 400
    /\ REQUEST_COUNT["/resources"] = NumReq

\* ---- C5
\* C5: the answer to the 30-day window holds exactly one monthly bucket, and
\* that bucket spans the whole window.
C5_OneMonthlyBucket ==
    \A r \in Requests :
        Answered(r, "/cost") /\ raised[r] = None /\ status[r] = 200
        => /\ Len(response[r]) = 1
           /\ response[r][1].TimePeriod = period[r]

\* ---- C6
Signed(a) == IF a.neg THEN -a.milli ELSE a.milli
Abs(n) == IF n < 0 THEN -n ELSE n
HalfUp(a) == (IF a.neg THEN -1 ELSE 1) * ((a.milli + 5) \div 10)
FirstGroups(r) == response[r][1].Groups

\* C6 as stated: every amount is rounded half-up (a third fractional digit
\* of 5 rounds away from zero).
C6_HalfUp ==
    \A r \in Requests :
        Answered(r, "/cost") /\ raised[r] = None /\ status[r] = 200
        => \A i \in 1..Len(FirstGroups(r)) :
              body[r][FirstGroups(r)[i].Keys[1]].cents = HalfUp(FirstGroups(r)[i].Amount)

\* C6 as amended: every amount is rounded to a nearest hundredth (the output
\* is within half a hundredth of the amount), it is the half-up value
\* whenever the third fractional digit is not 5, and "12.345" and "0.001"
\* give 12.35 and 0.0.
C6_NearestHundredth ==
    \A r \in Requests :
        Answered(r, "/cost") /\ raised[r] = None /\ status[r] = 200
        => \A i \in 1..Len(FirstGroups(r)) :
              LET a == FirstGroups(r)[i].Amount
                  c == body[r][FirstGroups(r)[i].Keys[1]].cents
              IN  /\ Abs(10 * c - Signed(a)) <= 5
                  /\ a.milli % 10 # 5 => c = HalfUp(a)
                  /\ a = Decimal(FALSE, 12345) => c = 1235
                  /\ a = Decimal(FALSE, 1) => c = 0

\* "0.015" comes out as 0.01 and "0.125" as 0.12: toward zero.
C6_Witness ==
    \E r \in Requests :
        /\ Answered(r, "/cost") /\ raised[r] = None /\ status[r] = 200
        /\ FirstGroups(r)[1].Amount = Decimal(FALSE, 15)
        /\ body[r]["EC2"].cents = 1

\* ---- C7
LastIndex(groups, s) ==
    CHOOSE i \in 1..Len(groups) :
        /\ groups[i].Keys[1] = s
        /\ \A j \in (i + 1)..Len(groups) : groups[j].Keys[1] # s

\* C7: the output has one entry per distinct service name of the first
\* bucket, holding the rounded amount of the last group with that name.
C7_LastOccurrenceWins ==
    \A r \in Requests :
        Answered(r, "/cost") /\ raised[r] = None /\ status[r] = 200
        => /\ DOMAIN body[r] = {FirstGroups(r)[i].Keys[1] : i \in 1..Len(FirstGroups(r))}
           /\ \A s \in DOMAIN body[r] :
                 body[r][s] = Round2(Float(FirstGroups(r)[LastIndex(FirstGroups(r), s)].Amount))

C7_Witness ==
    \E r \in Requests :
        /\ Answered(r, "/cost") /\ status[r] = 200
        /\ FirstGroups(r) = <<Group("EC2", Decimal(FALSE, 12345)),
                              Group("S3", Decimal(FALSE, 1)),
                              Group("EC2", Decimal(FALSE, 2675))>>
        /\ DOMAIN body[r] = {"EC2", "S3"}
        /\ body[r]["EC2"].cents = 267

\* ---- C8
\* C8: no session is ever built from an empty access_key or secret_key.
C8_NonEmptyKeys ==
    \A r \in Requests :
        \A i \in 1..Len(session[r]) :
            session[r][i].access_key # "" /\ session[r][i].secret_key # ""

\* ---- C9
\* C9: /health is answered 200 {"status": "ok"} whatever the other requests
\* do, and builds no session and issues no provider call.
C9_HealthOk ==
    \A r \in Requests :
        path[r] = "/health"
        => /\ session[r] = <<>>
           /\ calls[r] = <<>>
           /\ raised[r] = None
           /\ pc[r] \in {"respond", "done"} => status[r] = 200
           /\ pc[r] = "respond" => body[r] = [status |-> "ok"]

C9_Witness ==
    \E r1, r2 \in Requests :
        /\ Answered(r1, "/health") /\ body[r1] = [status |-> "ok"]
        /\ path[r2] = "/resources" /\ raised[r2] = "DescribeInstancesError"

\* ---- C10
IssueOrders(p) ==
    IF p = "/resources"
    THEN {<<>>, <<"describe_instances">>, <<"describe_instances", "list_buckets">>}
    ELSE IF p = "/cost" THEN {<<>>, <<"get_cost_and_usage">>}
    ELSE {<<>>}

\* C10: a request issues each provider operation at most once and in the
\* order of the handler, and issues none after an error was raised.
C10_NoRetry ==
    /\ [](\A r \in Requests : calls[r] \in IssueOrders(path[r]))
    /\ [][\A r \in Requests :
            raised[r] # None => Len(calls'[r]) <= Len(calls[r])]_vars

C10_Witness ==
    \E r \in Requests :
        /\ Answered(r, "/resources")
        /\ raised[r] = "DescribeInstancesError"
        /\ calls[r] = <<"describe_instances">>
====
